---- MODULE Spec2Model ----
(***************************************************************************)
(* A model of the nutri application: the AI gateway and its in-memory      *)
(* history store (src/services/apiService.ts), the session handling of     *)
(* App.tsx, the mock authentication of Auth.tsx and the plan form of       *)
(* PersonalCoach.tsx.                                                      *)
(*                                                                         *)
(* JavaScript runs one task at a time: every action below is one task (an  *)
(* event handler, a timer callback, or the settling of the external AI     *)
(* call) together with the promise continuations it triggers.              *)
(***************************************************************************)
EXTENDS Integers, Sequences, FiniteSets, TLC

(* ------------------------------ bounds -------------------------------- *)
\* gateway calls (analyzeMealImage / generatePersonalizedPlan) per behaviour
MaxCalls == 2
\* plan requests made from the plan form per behaviour, when the whole
\* application is driven
MaxRequests == 1
\* plan requests made from the plan form per behaviour, when the form alone is
\* driven
MaxCoachRequests == 2
\* pending setTimeout timers at any moment
MaxTimers == 2
\* largest value Date.now() takes
MaxNow == 1
\* objects a caller writes to per behaviour
MaxEdits == 1

(* ------------------------- JavaScript values -------------------------- *)
\* A JavaScript value is a tree of tagged nodes.  Numbers are kept as the
\* text of their value ("250", "Infinity"), strings as themselves.
Str(s) == [t |-> "str", v |-> s]
Num(n) == [t |-> "num", v |-> n]
Obj(f) == [t |-> "obj", v |-> f]
Arr(s) == [t |-> "arr", v |-> s]
Null == [t |-> "null", v |-> ""]
Undefined == [t |-> "undef", v |-> ""]

\* A string handed to JSON.parse, or read from localStorage: undefined, absent
\* (getItem gives null), the empty string, text that is not JSON, or a JSON document (kept as the
\* tree of its literals: Num("1e999") is the numeral 1e999).
NoDoc == Null
TextUndefined == [kind |-> "undefined", doc |-> NoDoc]
TextAbsent == [kind |-> "absent", doc |-> NoDoc]
TextEmpty == [kind |-> "empty", doc |-> NoDoc]
TextGarbage == [kind |-> "garbage", doc |-> NoDoc]
TextJson(d) == [kind |-> "json", doc |-> d]

\* The value of a JSON numeral: a numeral beyond the double range is Infinity.
NumeralValue(lit) == IF lit = "1e999" THEN "Infinity" ELSE lit

\* JSON.parse on a document.
RECURSIVE ParseDoc(_)
ParseDoc(d) ==
    CASE d.t = "obj" -> Obj([k \in DOMAIN d.v |-> ParseDoc(d.v[k])])
      [] d.t = "arr" -> Arr([i \in DOMAIN d.v |-> ParseDoc(d.v[i])])
      [] d.t = "num" -> Num(NumeralValue(d.v))
      [] OTHER -> d

\* JSON.parse throws a SyntaxError on anything that is not a JSON document
\* (undefined is first converted to the string "undefined").
ParseThrows(text) == text.kind # "json"
JSONparse(text) == ParseDoc(text.doc)

\* JSON.stringify: a non-finite number is written as null, a property whose
\* value is undefined is left out, an undefined array element is written null.
RECURSIVE StringifyDoc(_)
StringifyDoc(x) ==
    CASE x.t = "obj" ->
           Obj([k \in {j \in DOMAIN x.v : x.v[j].t # "undef"} |-> StringifyDoc(x.v[k])])
      [] x.t = "arr" ->
           Arr([i \in DOMAIN x.v |->
                  IF x.v[i].t = "undef" THEN Null ELSE StringifyDoc(x.v[i])])
      [] x.t = "num" -> IF x.v = "Infinity" THEN Null ELSE x
      [] OTHER -> x

JSONstringify(x) == IF x.t = "undef" THEN TextUndefined ELSE TextJson(StringifyDoc(x))

(* --------------------------- the AI service --------------------------- *)
Days == {"Monday", "Tuesday", "Wednesday", "Thursday", "Friday", "Saturday", "Sunday"}

\* responseSchema documents, as the set of values they admit: x is an object
\* holding every required property and none that is not declared.
HasShape(x, required, properties) ==
    /\ x.t = "obj"
    /\ required \subseteq DOMAIN x.v
    /\ DOMAIN x.v \subseteq properties
ArrayOf(x, type) == x.t = "arr" /\ \A i \in DOMAIN x.v : x.v[i].t = type

nutritionalInfoSchema(x) ==
    LET top == {"foodItems", "macros", "vitamins", "minerals", "summary"}
        macros == {"calories", "protein", "carbohydrates", "fat"}
    IN  /\ HasShape(x, top, top)
        /\ ArrayOf(x.v.foodItems, "str")
        /\ HasShape(x.v.macros, macros, macros)
        /\ \A k \in macros : x.v.macros.v[k].t = "num"
        /\ ArrayOf(x.v.vitamins, "obj")
        /\ ArrayOf(x.v.minerals, "obj")
        /\ x.v.summary.t = "str"

mealObjectSchema(x) ==
    /\ HasShape(x, {"breakfast", "lunch", "dinner"},
                {"breakfast", "lunch", "dinner", "snacks"})
    /\ \A k \in DOMAIN x.v : x.v[k].t = "str"

personalizedPlanSchema(x) ==
    LET top == {"summary", "mealPlan", "workoutPlan"}
    IN  /\ HasShape(x, top, top)
        /\ x.v.summary.t = "str"
        /\ HasShape(x.v.mealPlan, Days, Days)
        /\ \A d \in Days : mealObjectSchema(x.v.mealPlan.v[d])
        /\ HasShape(x.v.workoutPlan, Days, Days)
        /\ \A d \in Days : x.v.workoutPlan.v[d].t = "str"

\* Texts the service may answer a meal analysis with.
MealDoc(cal) ==
    Obj([foodItems |-> Arr(<<Str("rice")>>),
         macros |-> Obj([calories |-> Num(cal), protein |-> Num("5"),
                         carbohydrates |-> Num("45"), fat |-> Num("1")]),
         vitamins |-> Arr(<<>>),
         minerals |-> Arr(<<>>),
         summary |-> Str("ok")])
MealTexts ==
    { TextUndefined, TextGarbage,
      TextJson(MealDoc("250")),
      TextJson(MealDoc("1e999")),
      TextJson(Obj([summary |-> Str("ok")])) }

\* Texts the service may answer a plan request with.
DailyMeal == Obj([breakfast |-> Str("oats"), lunch |-> Str("rice"), dinner |-> Str("soup")])
PlanDoc(mealDays, workoutDays) ==
    Obj([summary |-> Str("plan"),
         mealPlan |-> Obj([d \in mealDays |-> DailyMeal]),
         workoutPlan |-> Obj([d \in workoutDays |-> Str("workout")])])
PlanTexts ==
    { TextGarbage,
      TextJson(PlanDoc(Days, Days)),
      TextJson(PlanDoc(Days \ {"Sunday"}, Days)),
      TextJson(PlanDoc(Days, Days \cup {"Funday"})) }

\* How ai.models.generateContent settles: it rejects, or resolves with a text.
Rejected == [ok |-> FALSE, text |-> TextUndefined]
Responses(texts) == {Rejected} \cup {[ok |-> TRUE, text |-> t] : t \in texts}

\* response.text.trim(): a TypeError when text is undefined.
TrimThrows(text) == text.kind = "undefined"

(* ------------------------------- state -------------------------------- *)
VARIABLES
    mockDb,      \* apiService.ts: the module-level history store
    heap,        \* the objects the store shares with callers, by reference
    now,         \* the value Date.now() returns
    calls,       \* gateway calls made so far, pending or settled
    timers,      \* pending setTimeout timers, in creation order
    histResult,  \* what the last getHistory() resolved with
    lastMealTs,  \* the largest timestamp of any meal entry made so far, or -1
    cleared,     \* clearHistory() calls resolved since the last write to the store (2: two or more)
    ls,          \* localStorage: the 'user' and 'user_db' records
    mounted,     \* App is mounted and its session-restore effect has run
    user,        \* App.tsx: the active session user, or null
    currentPage, \* App.tsx: the page shown
    auth,        \* Auth.tsx: the component's state
    coach,       \* PersonalCoach.tsx: the component's state
    registered,  \* the form values of every Register that succeeded, in order
    ev           \* the task that ran last

storeVars == <<mockDb, heap, now, calls, timers, histResult, lastMealTs, cleared>>
uiVars == <<ls, mounted, user, currentPage, auth, coach, registered>>
vars == <<mockDb, heap, now, calls, timers, histResult, lastMealTs, cleared,
          ls, mounted, user, currentPage, auth, coach, registered, ev>>

EmptyDb == [meals |-> <<>>, plans |-> <<>>]

\* The store as one JavaScript value, references followed.
MealItemValue(it) ==
    Obj([id |-> Str(it.id), timestamp |-> Num(ToString(it.timestamp)),
         nutritionalInfo |-> heap[it.nutritionalInfo],
         imageDataUrl |-> Str(it.imageDataUrl)])
PlanItemValue(it) ==
    Obj([id |-> Str(it.id), timestamp |-> Num(ToString(it.timestamp)),
         plan |-> heap[it.plan], metrics |-> heap[it.metrics], goal |-> Str(it.goal)])
DbValue(db) ==
    Obj([meals |-> Arr([i \in DOMAIN db.meals |-> MealItemValue(db.meals[i])]),
         plans |-> Arr([i \in DOMAIN db.plans |-> PlanItemValue(db.plans[i])])])

\* The task that ran last: its name, its outcome, and for a login or a
\* registration the form values it ran with.
NoCapture == [isRegister |-> FALSE, name |-> "", email |-> "", password |-> ""]
Ev(op, out) == [op |-> op, out |-> out, cap |-> NoCapture]
\* a task no property looks back at
Quiet == Ev("", "")

(* ----------------------------- AI gateway ----------------------------- *)
\* A faulty variant of Unshift: the item is added at the end.
UnshiftAsPush(seq, item) == Append(seq, item)
\* Array.prototype.unshift: the new item becomes element 0.
Unshift(seq, item) == <<item>> \o seq

\* A gateway call: op is "analyze" or "plan"; owner is who awaits it ("api", a
\* direct caller, or "coach", the plan form); orphan: the awaiting component
\* has been unmounted; a1, a2: image and mime type, or goal; mref: the metrics
\* object passed in; res: the object
\* returned to the caller; ret: its value when it was returned; shown: the
\* plan the form displayed when it made the request (0: none).
NewCall(op, owner, a1, a2, mref, shown) ==
    [op |-> op, owner |-> owner, orphan |-> FALSE, status |-> "pending",
     a1 |-> a1, a2 |-> a2, mref |-> mref,
     res |-> 0, ret |-> Null, shown |-> shown]

Pending(i, op) ==
    /\ i \in DOMAIN calls
    /\ calls[i].op = op
    /\ calls[i].status = "pending"

\* The await of generateContent rejects, or response.text.trim() or
\* JSON.parse throws: the async function rejects at that line.
GatewayThrows(r) == ~r.ok \/ TrimThrows(r.text) \/ ParseThrows(r.text)

\* Date.now() is read twice (id, then timestamp); the clock may have moved on
\* between the two reads.
SecondRead == {now} \cup (IF now < MaxNow THEN {now + 1} ELSE {})

\* analyzeMealImage up to its await: the request is sent to the service.
AnalyzeCall(img, mime) ==
    /\ Len(calls) < MaxCalls
    /\ calls' = Append(calls, NewCall("analyze", "api", img, mime, 0, 0))
    /\ ev' = Quiet
    /\ UNCHANGED <<mockDb, heap, now, timers, histResult, lastMealTs, cleared>>
    /\ UNCHANGED uiVars

\* analyzeMealImage from its await on, the external call settling with r.
analyzeMealImage(i, r) ==
    /\ Pending(i, "analyze")
    /\ IF GatewayThrows(r)
       THEN /\ calls' = [calls EXCEPT ![i].status = "rejected"]
            /\ ev' = Ev("analyzeMealImage", "rejected")
            /\ UNCHANGED <<mockDb, heap, now, lastMealTs, cleared>>
       ELSE \E t2 \in SecondRead :
            LET analysis == JSONparse(r.text)
                ref == Len(heap) + 1
                newMealItem ==
                    [id |-> "meal-" \o ToString(now),
                     timestamp |-> t2,
                     nutritionalInfo |-> ref,
                     imageDataUrl |-> "data:" \o calls[i].a2 \o ";base64," \o calls[i].a1]
            IN  /\ heap' = Append(heap, analysis)
                /\ mockDb' = [mockDb EXCEPT !.meals = Unshift(@, newMealItem)]
                /\ now' = t2
                /\ lastMealTs' = IF t2 > lastMealTs THEN t2 ELSE lastMealTs
                /\ cleared' = 0
                /\ calls' = [calls EXCEPT ![i].status = "resolved",
                                          ![i].res = ref, ![i].ret = analysis]
                /\ ev' = Ev("analyzeMealImage", "resolved")
    /\ UNCHANGED <<timers, histResult>>
    /\ UNCHANGED uiVars

\* generatePersonalizedPlan up to its await, for a direct caller.
MetricsValue(m) ==
    Obj([height |-> Str(m.height), weight |-> Str(m.weight), age |-> Str(m.age),
         gender |-> Str(m.gender), activityLevel |-> Str(m.activityLevel)])

PlanRequest(owner, m, goal, shown) ==
    /\ heap' = Append(heap, MetricsValue(m))
    /\ calls' = Append(calls, NewCall("plan", owner, goal, "", Len(heap) + 1, shown))
    /\ UNCHANGED <<mockDb, now, timers, histResult, lastMealTs, cleared>>

GeneratePlanCall(m, goal) ==
    /\ Len(calls) < MaxCalls
    /\ PlanRequest("api", m, goal, 0)
    /\ ev' = Quiet
    /\ UNCHANGED uiVars

\* handleGeneratePlan after its await (PersonalCoach.tsx): setPlan or
\* setApiError, then finally setIsLoading(false).  State updates of an
\* unmounted component are dropped.
AfterPlan(c, ok, ref) ==
    IF c.owner = "coach" /\ ~c.orphan
    THEN IF ok
         THEN [coach EXCEPT !.plan = ref, !.isLoading = FALSE]
         ELSE [coach EXCEPT !.apiError = "request failed", !.isLoading = FALSE]
    ELSE coach

\* generatePersonalizedPlan from its await on, the external call settling with r.
generatePersonalizedPlan(i, r) ==
    /\ Pending(i, "plan")
    /\ IF GatewayThrows(r)
       THEN /\ calls' = [calls EXCEPT ![i].status = "rejected"]
            /\ coach' = AfterPlan(calls[i], FALSE, 0)
            /\ ev' = Ev("generatePersonalizedPlan",
                        IF calls[i].orphan THEN "rejected, unmounted" ELSE "rejected")
            /\ UNCHANGED <<mockDb, heap, now, cleared>>
       ELSE \E t2 \in SecondRead :
            LET plan == JSONparse(r.text)
                ref == Len(heap) + 1
                newPlanItem ==
                    [id |-> "plan-" \o ToString(now),
                     timestamp |-> t2,
                     plan |-> ref,
                     metrics |-> calls[i].mref,
                     goal |-> calls[i].a1]
            IN  /\ heap' = Append(heap, plan)
                /\ mockDb' = [mockDb EXCEPT !.plans = Unshift(@, newPlanItem)]
                /\ now' = t2
                /\ calls' = [calls EXCEPT ![i].status = "resolved",
                                          ![i].res = ref, ![i].ret = plan]
                /\ coach' = AfterPlan(calls[i], TRUE, ref)
                /\ cleared' = 0
                /\ ev' = Ev("generatePersonalizedPlan",
                            IF calls[i].orphan THEN "resolved, unmounted" ELSE "resolved")
    /\ UNCHANGED <<timers, histResult, lastMealTs>>
    /\ UNCHANGED <<ls, mounted, user, currentPage, auth, registered>>

(* ------------------------------- timers ------------------------------- *)
\* Delays in ms: sleep(500) in getHistory and clearHistory, the simulated
\* Google login, the simulated login/registration.
SleepDelay == 500
GoogleDelay == 500
SubmitDelay == 1000
\* Time advances in steps of the shortest delay.
Quantum == SleepDelay

NewTimer(kind, delay, owner, cap) ==
    [kind |-> kind, rem |-> delay, owner |-> owner, cap |-> cap]

\* sleep(ms) (apiService.ts): a timer whose firing resumes the caller.
sleep(kind, owner) == Append(timers, NewTimer(kind, SleepDelay, owner, NoCapture))

\* The timer the event loop runs next: expired, and the oldest such.
Due(i, kind) ==
    /\ i \in DOMAIN timers
    /\ timers[i].kind = kind
    /\ timers[i].rem = 0
    /\ \A j \in 1..(i - 1) : timers[j].rem > 0

RemoveAt(seq, i) == SubSeq(seq, 1, i - 1) \o SubSeq(seq, i + 1, Len(seq))

\* Time passes; it does not pass an expired timer.
Tick ==
    /\ timers # <<>>
    /\ \A j \in DOMAIN timers : timers[j].rem > 0
    /\ timers' = [j \in DOMAIN timers |-> [timers[j] EXCEPT !.rem = @ - Quantum]]
    /\ ev' = Quiet
    /\ UNCHANGED <<mockDb, heap, now, calls, histResult, lastMealTs, cleared>>
    /\ UNCHANGED uiVars

\* The wall clock moves on.
ClockAdvance ==
    /\ now < MaxNow
    /\ now' = now + 1
    /\ ev' = Quiet
    /\ UNCHANGED <<mockDb, heap, calls, timers, histResult, lastMealTs, cleared>>
    /\ UNCHANGED uiVars

(* ------------------------ getHistory, clearHistory -------------------- *)
\* getHistory up to its await.
GetHistoryCall ==
    /\ Len(timers) < MaxTimers
    /\ timers' = sleep("getHistory", "api")
    /\ ev' = Quiet
    /\ UNCHANGED <<mockDb, heap, now, calls, histResult, lastMealTs, cleared>>
    /\ UNCHANGED uiVars

\* JSON.parse(JSON.stringify(mockDb))
DeepCopy(x) == JSONparse(JSONstringify(x))

\* getHistory from its await on.
getHistory(i) ==
    /\ Due(i, "getHistory")
    /\ timers' = RemoveAt(timers, i)
    /\ histResult' = DeepCopy(DbValue(mockDb))
    /\ ev' = Ev("getHistory", "resolved")
    /\ UNCHANGED <<mockDb, heap, now, calls, lastMealTs, cleared>>
    /\ UNCHANGED uiVars

\* clearHistory up to its await, for a direct caller.
ClearHistoryCall ==
    /\ Len(timers) < MaxTimers
    /\ timers' = sleep("clearHistory", "api")
    /\ ev' = Quiet
    /\ UNCHANGED <<mockDb, heap, now, calls, histResult, lastMealTs, cleared>>
    /\ UNCHANGED uiVars

\* Faulty variants of ClearedDb: only one of the two collections is reset.
ClearsPlansOnly(db) == [db EXCEPT !.plans = <<>>]
ClearsMealsOnly(db) == [db EXCEPT !.meals = <<>>]
\* mockDb = { meals: [], plans: [] }
ClearedDb(db) == EmptyDb

\* clearHistory from its await on; a handleLogout awaiting it resolves with it.
clearHistory(i) ==
    /\ Due(i, "clearHistory")
    /\ timers' = RemoveAt(timers, i)
    /\ mockDb' = ClearedDb(mockDb)
    /\ cleared' = IF cleared < 2 THEN cleared + 1 ELSE cleared
    /\ ev' = Ev(IF timers[i].owner = "logout" THEN "handleLogout" ELSE "clearHistory",
                "resolved")
    /\ UNCHANGED <<heap, now, calls, histResult, lastMealTs>>
    /\ UNCHANGED uiVars

(* ----------------------- callers of the gateway ----------------------- *)
\* A caller writes to the value getHistory() gave it: it empties both arrays.
MutateHistory ==
    /\ histResult.t = "obj"
    /\ histResult # DbValue(EmptyDb)
    /\ histResult' = DbValue(EmptyDb)
    /\ ev' = Quiet
    /\ UNCHANGED <<mockDb, heap, now, calls, timers, lastMealTs, cleared>>
    /\ UNCHANGED uiVars

\* The objects callers hold once a call has resolved: the object it returned
\* and, for a plan, the metrics object they passed in.
HeldRefs ==
    {calls[i].res : i \in {j \in DOMAIN calls : calls[j].status = "resolved"}}
      \cup {calls[i].mref : i \in {j \in DOMAIN calls :
                                    calls[j].status = "resolved" /\ calls[j].mref # 0}}

\* obj.note = "edited"
Edited(x) == x.t = "obj" /\ "note" \in DOMAIN x.v
WithNote(x) ==
    Obj([k \in DOMAIN x.v \cup {"note"} |-> IF k = "note" THEN Str("edited") ELSE x.v[k]])

\* A caller writes to an object it holds.
MutateReturned(ref) ==
    /\ ref \in HeldRefs
    /\ heap[ref].t = "obj"
    /\ ~Edited(heap[ref])
    /\ Cardinality({k \in DOMAIN heap : Edited(heap[k])}) < MaxEdits
    /\ heap' = [heap EXCEPT ![ref] = WithNote(@)]
    /\ ev' = Quiet
    /\ UNCHANGED <<mockDb, now, calls, timers, histResult, lastMealTs, cleared>>
    /\ UNCHANGED uiVars

(* ------------------------- session (App.tsx) -------------------------- *)
\* JavaScript truthiness of a value / of a string read from localStorage.
Truthy(x) == ~(x.t \in {"null", "undef"} \/ x = Str("") \/ x = Num("0"))
TruthyText(text) == text.kind \notin {"absent", "empty", "undefined"}

UserValue(name, email) == Obj([name |-> Str(name), email |-> Str(email)])

\* localStorage.setItem(key, JSON.stringify(x)): the value is converted to a
\* string, so undefined is stored as the text "undefined".
StoredText(x) == IF x.t = "undef" THEN TextGarbage ELSE JSONstringify(x)

AuthInit ==
    [isRegister |-> FALSE, name |-> "", email |-> "", password |-> "",
     error |-> "", isLoading |-> FALSE]

NoMetrics == [height |-> "", weight |-> "", age |-> "", gender |-> "", activityLevel |-> ""]
CoachInit ==
    [metrics |-> NoMetrics, goal |-> "", plan |-> 0, isLoading |-> FALSE,
     apiError |-> "", validationErrors |-> <<>>]

\* PersonalCoach is unmounted: its state is gone, and the requests it awaits
\* settle into an unmounted component.
OrphanCoachCalls ==
    [i \in DOMAIN calls |->
        IF calls[i].owner = "coach" /\ calls[i].status = "pending"
        THEN [calls[i] EXCEPT !.orphan = TRUE]
        ELSE calls[i]]

\* A faulty variant of removeUser: the record is left in place.
keepUser(l) == l
\* localStorage.removeItem('user')
removeUser(l) == [l EXCEPT !.user = TextAbsent]

\* The effect run once when App mounts: restore the persisted session.
SessionRestore ==
    /\ ~mounted
    /\ mounted' = TRUE
    /\ IF TruthyText(ls.user)
       THEN IF ParseThrows(ls.user)
            THEN /\ ls' = removeUser(ls)
                 /\ user' = user
                 /\ ev' = Ev("sessionRestore", "corrupted")
            ELSE /\ user' = JSONparse(ls.user)
                 /\ ls' = ls
                 /\ ev' = Ev("sessionRestore", "restored")
       ELSE /\ UNCHANGED <<ls, user>>
            /\ ev' = Ev("sessionRestore", "none")
    /\ UNCHANGED storeVars
    /\ UNCHANGED <<currentPage, auth, coach, registered>>

\* handleLogin, localStorage being l; Auth is unmounted once a user is set.
handleLogin(l, newUser) ==
    /\ ls' = [l EXCEPT !.user = StoredText(newUser)]
    /\ user' = newUser
    /\ auth' = IF Truthy(newUser) THEN AuthInit ELSE auth

LoggedIn == mounted /\ Truthy(user)
LoggedOut == mounted /\ ~Truthy(user)

\* handleLogout, up to its await of clearHistory().
handleLogout ==
    /\ LoggedIn
    /\ Len(timers) < MaxTimers
    /\ ls' = removeUser(ls)
    /\ user' = Null
    /\ currentPage' = "Analyzer"
    /\ timers' = Append(timers, NewTimer("clearHistory", SleepDelay, "logout", NoCapture))
    /\ coach' = CoachInit
    /\ calls' = OrphanCoachCalls
    /\ ev' = Quiet
    /\ UNCHANGED <<mockDb, heap, now, histResult, lastMealTs, cleared>>
    /\ UNCHANGED <<mounted, auth, registered>>

\* setCurrentPage, handed to the Header.
setCurrentPage(page) ==
    /\ LoggedIn
    /\ page # currentPage
    /\ currentPage' = page
    /\ coach' = CoachInit
    /\ calls' = OrphanCoachCalls
    /\ ev' = Quiet
    /\ UNCHANGED <<mockDb, heap, now, timers, histResult, lastMealTs, cleared>>
    /\ UNCHANGED <<ls, mounted, user, auth, registered>>

(* ------------------- mock authentication (Auth.tsx) ------------------- *)
AuthShown == LoggedOut /\ ~auth.isLoading

\* The onChange handlers of the three inputs (disabled while loading; the
\* name input exists only in register mode).
setName(v) ==
    /\ AuthShown /\ auth.isRegister /\ auth.name # v
    /\ auth' = [auth EXCEPT !.name = v]
    /\ ev' = Quiet
    /\ UNCHANGED storeVars
    /\ UNCHANGED <<ls, mounted, user, currentPage, coach, registered>>

setEmail(v) ==
    /\ AuthShown /\ auth.email # v
    /\ auth' = [auth EXCEPT !.email = v]
    /\ ev' = Quiet
    /\ UNCHANGED storeVars
    /\ UNCHANGED <<ls, mounted, user, currentPage, coach, registered>>

setPassword(v) ==
    /\ AuthShown /\ auth.password # v
    /\ auth' = [auth EXCEPT !.password = v]
    /\ ev' = Quiet
    /\ UNCHANGED storeVars
    /\ UNCHANGED <<ls, mounted, user, currentPage, coach, registered>>

\* The Sign In / Sign Up switch.
setIsRegister ==
    /\ AuthShown
    /\ auth' = [auth EXCEPT !.isRegister = ~@, !.error = ""]
    /\ ev' = Quiet
    /\ UNCHANGED storeVars
    /\ UNCHANGED <<ls, mounted, user, currentPage, coach, registered>>

\* handleGoogleLogin, up to its timer.
handleGoogleLogin ==
    /\ AuthShown
    /\ Len(timers) < MaxTimers
    /\ auth' = [auth EXCEPT !.isLoading = TRUE]
    /\ timers' = Append(timers, NewTimer("google", GoogleDelay, "auth", NoCapture))
    /\ ev' = Quiet
    /\ UNCHANGED <<mockDb, heap, now, calls, histResult, lastMealTs, cleared>>
    /\ UNCHANGED <<ls, mounted, user, currentPage, coach, registered>>

\* The timer callback of handleGoogleLogin.
GoogleLoginTimeout(i) ==
    /\ Due(i, "google")
    /\ timers' = RemoveAt(timers, i)
    /\ handleLogin(ls, UserValue("Demo User", "demo@google.com"))
    /\ ev' = Ev("googleLogin", "ok")
    /\ UNCHANGED <<mockDb, heap, now, calls, histResult, lastMealTs, cleared>>
    /\ UNCHANGED <<mounted, currentPage, coach, registered>>

\* The form's inputs are all `required`: the browser does not dispatch the
\* submit event while one of the inputs shown is empty.
RequiredFilled ==
    /\ auth.email # ""
    /\ auth.password # ""
    /\ auth.isRegister => auth.name # ""

\* handleSubmit, up to its timer; the callback closes over the form's values.
handleSubmit ==
    /\ AuthShown
    /\ RequiredFilled
    /\ Len(timers) < MaxTimers
    /\ auth' = [auth EXCEPT !.error = "", !.isLoading = TRUE]
    /\ timers' = Append(timers,
                   NewTimer("submit", SubmitDelay, "auth",
                            [isRegister |-> auth.isRegister, name |-> auth.name,
                             email |-> auth.email, password |-> auth.password]))
    /\ ev' = Quiet
    /\ UNCHANGED <<mockDb, heap, now, calls, histResult, lastMealTs, cleared>>
    /\ UNCHANGED <<ls, mounted, user, currentPage, coach, registered>>

\* getUserDb: db ? JSON.parse(db) : []
getUserDbThrows == TruthyText(ls.user_db) /\ ParseThrows(ls.user_db)
getUserDb == IF TruthyText(ls.user_db) THEN JSONparse(ls.user_db) ELSE Arr(<<>>)

\* setUserDb
setUserDb(db) == [ls EXCEPT !.user_db = StoredText(db)]

\* user.email === email, for an element of the list.
HasEmail(u, email) == u.t = "obj" /\ "email" \in DOMAIN u.v /\ u.v.email = Str(email)
\* A faulty variant of FindIndex: the list is never searched.
FindNothing(db, email) == 0
\* db.some(...) / db.find(...): index of the first match, 0 when there is none.
FindIndex(db, email) ==
    IF \E k \in DOMAIN db.v : HasEmail(db.v[k], email)
    THEN CHOOSE k \in DOMAIN db.v :
            /\ HasEmail(db.v[k], email)
            /\ \A j \in 1..(k - 1) : ~HasEmail(db.v[j], email)
    ELSE 0
\* A TypeError: the parsed value has no some/find, or an element read before
\* the match is null.
ScanThrows(db, email) ==
    \/ db.t # "arr"
    \/ \E k \in DOMAIN db.v :
          /\ db.v[k].t \in {"null", "undef"}
          /\ (FindIndex(db, email) = 0 \/ k < FindIndex(db, email))

\* A faulty variant of WithUser: the list is replaced by the new user alone.
OnlyUser(db, newUser) == Arr(<<newUser>>)
\* [...db, newUser]
WithUser(db, newUser) == Arr(Append(db.v, newUser))

\* What the timer callback of handleSubmit does with the values c it closed
\* over: "threw" (an uncaught exception: no state is set), an error message,
\* or "ok" with the user handed to onLogin.
SubmitResult(c) ==
    IF c.isRegister
    THEN IF c.name = "" \/ c.email = "" \/ c.password = ""
         THEN [out |-> "Please fill all fields.", u |-> Null]
         ELSE IF getUserDbThrows \/ ScanThrows(getUserDb, c.email)
         THEN [out |-> "threw", u |-> Null]
         ELSE IF FindIndex(getUserDb, c.email) # 0
         THEN [out |-> "An account with this email already exists.", u |-> Null]
         ELSE [out |-> "ok", u |-> UserValue(c.name, c.email)]
    ELSE IF c.email = "" \/ c.password = ""
         THEN [out |-> "Please enter email and password.", u |-> Null]
         ELSE IF getUserDbThrows \/ ScanThrows(getUserDb, c.email)
         THEN [out |-> "threw", u |-> Null]
         ELSE IF FindIndex(getUserDb, c.email) # 0
         THEN [out |-> "ok", u |-> getUserDb.v[FindIndex(getUserDb, c.email)]]
         ELSE [out |-> "No account found with that email. Please register.", u |-> Null]

\* The timer callback of handleSubmit.
SubmitTimeout(i) ==
    /\ Due(i, "submit")
    /\ timers' = RemoveAt(timers, i)
    /\ LET c == timers[i].cap
           r == SubmitResult(c)
       IN  /\ ev' = [op |-> IF c.isRegister THEN "register" ELSE "login",
                     out |-> r.out, cap |-> c]
           /\ CASE r.out = "threw" ->
                     UNCHANGED <<ls, user, auth, registered>>
                [] r.out = "ok" /\ c.isRegister ->
                     /\ handleLogin(setUserDb(WithUser(getUserDb, r.u)), r.u)
                     /\ registered' = Append(registered, c)
                [] r.out = "ok" /\ ~c.isRegister ->
                     /\ handleLogin(ls, r.u)
                     /\ UNCHANGED registered
                [] OTHER ->
                     /\ auth' = [auth EXCEPT !.error = r.out, !.isLoading = FALSE]
                     /\ UNCHANGED <<ls, user, registered>>
    /\ UNCHANGED <<mockDb, heap, now, calls, histResult, lastMealTs, cleared>>
    /\ UNCHANGED <<mounted, currentPage, coach>>

(* --------------------- plan form (PersonalCoach.tsx) ------------------ *)
\* The characters of the strings the form is given.
Chars(s) ==
    CASE s = "" -> <<>>
      [] s = " " -> <<" ">>
      [] s = "0" -> <<"0">>
      [] s = "30" -> <<"3", "0">>
      [] s = "121" -> <<"1", "2", "1">>
      [] s = "30.5" -> <<"3", "0", ".", "5">>
      [] s = "-5" -> <<"-", "5">>
      [] s = "0.5" -> <<"0", ".", "5">>
      [] s = "cm" -> <<"c", "m">>
      [] s = "180cm" -> <<"1", "8", "0", "c", "m">>
      [] s = "75kg" -> <<"7", "5", "k", "g">>
      [] s = "lose 5kg" -> <<"l", "o", "s", "e", " ", "5", "k", "g">>
      [] OTHER -> <<"x">>

Digits == {"0", "1", "2", "3", "4", "5", "6", "7", "8", "9"}
DigitVal(c) ==
    CASE c = "0" -> 0 [] c = "1" -> 1 [] c = "2" -> 2 [] c = "3" -> 3 [] c = "4" -> 4
      [] c = "5" -> 5 [] c = "6" -> 6 [] c = "7" -> 7 [] c = "8" -> 8 [] c = "9" -> 9

RECURSIVE TrimStart(_)
TrimStart(cs) == IF cs # <<>> /\ Head(cs) = " " THEN TrimStart(Tail(cs)) ELSE cs
\* s.trim() is the empty string
Blank(s) == TrimStart(Chars(s)) = <<>>

RECURSIVE DigitPrefix(_)
DigitPrefix(cs) ==
    IF cs # <<>> /\ Head(cs) \in Digits
    THEN <<Head(cs)>> \o DigitPrefix(Tail(cs))
    ELSE <<>>
RECURSIVE DigitsValue(_)
DigitsValue(ds) ==
    IF ds = <<>> THEN 0
    ELSE 10 * DigitsValue(SubSeq(ds, 1, Len(ds) - 1)) + DigitVal(ds[Len(ds)])

Signed(cs) == cs # <<>> /\ Head(cs) \in {"-", "+"}
Unsigned(cs) == IF Signed(cs) THEN Tail(cs) ELSE cs

\* parseInt(s, 10): leading white space, a sign, then the longest run of
\* digits; NaN when there is no digit.
parseInt(s) ==
    LET t == TrimStart(Chars(s))
        ds == DigitPrefix(Unsigned(t))
    IN  IF ds = <<>> THEN [nan |-> TRUE, val |-> 0]
        ELSE [nan |-> FALSE,
              val |-> IF t[1] = "-" THEN 0 - DigitsValue(ds) ELSE DigitsValue(ds)]

\* parseFloat(s): leading white space, a sign, digits, a fraction; NaN when
\* there is no digit.  The result is kept as its sign and its digits.
parseFloat(s) ==
    LET t == TrimStart(Chars(s))
        u == Unsigned(t)
        int == DigitPrefix(u)
        rest == SubSeq(u, Len(int) + 1, Len(u))
        frac == IF rest # <<>> /\ Head(rest) = "." THEN DigitPrefix(Tail(rest)) ELSE <<>>
    IN  IF int = <<>> /\ frac = <<>> THEN [nan |-> TRUE, neg |-> FALSE, zero |-> FALSE]
        ELSE [nan |-> FALSE, neg |-> t[1] = "-",
              zero |-> DigitsValue(int) = 0 /\ DigitsValue(frac) = 0]
\* x <= 0, for a result of parseFloat that is not NaN
NotPositive(x) == x.neg \/ x.zero

\* validateForm: the errors it finds, by field.
AgeError(m) ==
    IF m.age = "" THEN "Age is required."
    ELSE IF parseInt(m.age).nan \/ parseInt(m.age).val < 1 \/ parseInt(m.age).val > 120
    THEN "Please enter a realistic age (1-120)."
    ELSE ""
HeightError(m) ==
    IF Blank(m.height) THEN "Height is required."
    ELSE IF parseFloat(m.height).nan \/ NotPositive(parseFloat(m.height))
    THEN "Please enter a valid positive number for height."
    ELSE ""
WeightError(m) ==
    IF Blank(m.weight) THEN "Weight is required."
    ELSE IF parseFloat(m.weight).nan \/ NotPositive(parseFloat(m.weight))
    THEN "Please enter a valid positive number for weight."
    ELSE ""
validateForm(m, goal) ==
    LET e == [age |-> AgeError(m), height |-> HeightError(m), weight |-> WeightError(m),
              gender |-> IF m.gender = "" THEN "Please select your gender." ELSE "",
              activityLevel |-> IF m.activityLevel = ""
                                THEN "Please select your activity level." ELSE "",
              goal |-> IF Blank(goal) THEN "Please describe your goal." ELSE ""]
    IN  [k \in {f \in DOMAIN e : e[f] # ""} |-> e[k]]

isFormPopulated ==
    /\ \A f \in DOMAIN coach.metrics : coach.metrics[f] # ""
    /\ ~Blank(coach.goal)

CoachShown == LoggedIn /\ currentPage = "Coach"

\* setValidationErrors(prev => ({...prev, [name]: undefined}))
WithoutError(errs, name) == [k \in DOMAIN errs \ {name} |-> errs[k]]

handleChange(name, value) ==
    /\ CoachShown
    /\ coach.metrics[name] # value
    /\ coach' = [coach EXCEPT !.metrics[name] = value,
                              !.validationErrors = WithoutError(@, name)]
    /\ ev' = Quiet
    /\ UNCHANGED storeVars
    /\ UNCHANGED <<ls, mounted, user, currentPage, auth, registered>>

handleGoalChange(value) ==
    /\ CoachShown
    /\ coach.goal # value
    /\ coach' = [coach EXCEPT !.goal = value,
                              !.validationErrors = WithoutError(@, "goal")]
    /\ ev' = Quiet
    /\ UNCHANGED storeVars
    /\ UNCHANGED <<ls, mounted, user, currentPage, auth, registered>>

\* handleGeneratePlan, up to its await; the button is disabled unless the form
\* is populated and no request is pending.  At most limit requests are made.
handleGeneratePlan(limit) ==
    /\ CoachShown
    /\ isFormPopulated
    /\ ~coach.isLoading
    /\ LET errs == validateForm(coach.metrics, coach.goal)
       IN  IF DOMAIN errs # {}
           THEN /\ coach' = [coach EXCEPT !.apiError = "", !.validationErrors = errs]
                /\ ev' = Ev("handleGeneratePlan", "invalid")
                /\ UNCHANGED storeVars
           ELSE /\ Len(calls) < limit
                /\ PlanRequest("coach", coach.metrics, coach.goal, coach.plan)
                /\ coach' = [coach EXCEPT !.apiError = "", !.validationErrors = errs,
                                          !.isLoading = TRUE, !.plan = 0]
                /\ ev' = Ev("handleGeneratePlan", "pending")
    /\ UNCHANGED <<ls, mounted, user, currentPage, auth, registered>>

(* --------------------------- specifications --------------------------- *)
InitStore ==
    /\ mockDb = EmptyDb
    /\ heap = <<>>
    /\ now = 0
    /\ calls = <<>>
    /\ timers = <<>>
    /\ histResult = Undefined
    /\ lastMealTs = -1
    /\ cleared = 0

InitUi ==
    /\ mounted = FALSE
    /\ user = Null
    /\ currentPage = "Analyzer"
    /\ auth = AuthInit
    /\ coach = CoachInit
    /\ registered = <<>>
    /\ ev = Ev("init", "")

\* What localStorage may hold when the page is loaded.
Bob == UserValue("Bob", "bob@x.com")
StoredUsers == {TextAbsent, TextEmpty, TextGarbage, TextJson(Bob)}
StoredUserDbs == {TextAbsent, TextGarbage, TextJson(Arr(<<Bob>>))}
InitialStorage ==
    {[user |-> TextAbsent, user_db |-> d] : d \in StoredUserDbs}
      \cup {[user |-> u, user_db |-> TextJson(Arr(<<Bob>>))] : u \in StoredUsers}

\* The application, as its user drives it.
Init ==
    /\ InitStore
    /\ InitUi
    /\ ls \in InitialStorage

Names == {"", "Alice"}
Emails == {"", "alice@x.com", "bob@x.com"}
Passwords == {"", "pw1", "anything"}
FormValues ==
    [age |-> {"", "30", "0"}, height |-> {"", "180cm"}, weight |-> {"", "75kg"},
     gender |-> {"", "male"}, activityLevel |-> {"", "moderate"}]
Goals == {"", "lose 5kg"}
PlanAnswers == {Rejected, [ok |-> TRUE, text |-> TextJson(PlanDoc(Days, Days))]}

Next ==
    \/ SessionRestore
    \/ \E v \in Names : setName(v)
    \/ \E v \in Emails : setEmail(v)
    \/ \E v \in Passwords : setPassword(v)
    \/ setIsRegister
    \/ handleGoogleLogin
    \/ handleSubmit
    \/ \E i \in DOMAIN timers : GoogleLoginTimeout(i)
    \/ \E i \in DOMAIN timers : SubmitTimeout(i)
    \/ handleLogout
    \/ \E i \in DOMAIN timers : clearHistory(i)
    \/ \E page \in {"Analyzer", "Coach", "History"} : setCurrentPage(page)
    \/ \E f \in DOMAIN FormValues : \E v \in FormValues[f] : handleChange(f, v)
    \/ \E v \in Goals : handleGoalChange(v)
    \/ handleGeneratePlan(MaxRequests)
    \/ \E i \in DOMAIN calls : \E r \in PlanAnswers : generatePersonalizedPlan(i, r)
    \/ Tick

Spec == Init /\ [][Next]_vars

\* The gateway, as its four functions are called by any caller.
InitGateway ==
    /\ InitStore
    /\ InitUi
    /\ ls = [user |-> TextAbsent, user_db |-> TextAbsent]

Images == {"AAAA"}
MimeTypes == {"image/png"}
ValidMetrics ==
    {[height |-> "180cm", weight |-> "75kg", age |-> "30", gender |-> "male",
      activityLevel |-> "moderate"]}

NextGateway ==
    \/ \E img \in Images : \E mime \in MimeTypes : AnalyzeCall(img, mime)
    \/ \E i \in DOMAIN calls : \E r \in Responses(MealTexts) : analyzeMealImage(i, r)
    \/ \E m \in ValidMetrics : GeneratePlanCall(m, "lose 5kg")
    \/ \E i \in DOMAIN calls : \E r \in Responses(PlanTexts) : generatePersonalizedPlan(i, r)
    \/ GetHistoryCall
    \/ \E i \in DOMAIN timers : getHistory(i)
    \/ ClearHistoryCall
    \/ \E i \in DOMAIN timers : clearHistory(i)
    \/ MutateHistory
    \/ Tick
    \/ ClockAdvance

SpecGateway == InitGateway /\ [][NextGateway]_vars

\* The gateway, as called by callers that go on writing to the objects they
\* hold.
NextCallers ==
    \/ \E img \in Images : \E mime \in MimeTypes : AnalyzeCall(img, mime)
    \/ \E i \in DOMAIN calls : \E r \in Responses(MealTexts) : analyzeMealImage(i, r)
    \/ \E m \in ValidMetrics : GeneratePlanCall(m, "lose 5kg")
    \/ \E i \in DOMAIN calls : \E r \in Responses(PlanTexts) : generatePersonalizedPlan(i, r)
    \/ \E ref \in DOMAIN heap : MutateReturned(ref)
    \/ GetHistoryCall
    \/ \E i \in DOMAIN timers : getHistory(i)
    \/ Tick

SpecCallers == InitGateway /\ [][NextCallers]_vars

\* The plan form, as a user with a persisted session drives it.
InitCoach ==
    /\ InitStore
    /\ InitUi
    /\ ls = [user |-> TextJson(Bob), user_db |-> TextJson(Arr(<<Bob>>))]

CoachFormValues ==
    [age |-> {"", "30", "121", "30.5"}, height |-> {"", "180cm", "cm"},
     weight |-> {"", "75kg"}, gender |-> {"", "male"},
     activityLevel |-> {"", "moderate"}]
CoachGoals == {"", "lose 5kg"}
CoachPlanAnswers == PlanAnswers \cup {[ok |-> TRUE, text |-> TextGarbage]}

NextCoach ==
    \/ SessionRestore
    \/ \E page \in {"Analyzer", "Coach"} : setCurrentPage(page)
    \/ \E f \in DOMAIN CoachFormValues : \E v \in CoachFormValues[f] : handleChange(f, v)
    \/ \E v \in CoachGoals : handleGoalChange(v)
    \/ handleGeneratePlan(MaxCoachRequests)
    \/ \E i \in DOMAIN calls : \E r \in CoachPlanAnswers : generatePersonalizedPlan(i, r)

SpecCoach == InitCoach /\ [][NextCoach]_vars

(* ------------------------------ properties ---------------------------- *)
\* C1: every successful analyzeMealImage adds exactly one entry to meals, at
\* index 0, the earlier entries keeping their order, and its timestamp is at
\* least that of every entry made before it (cleared ones included).
AnalyzeSucceeds ==
    \E i \in DOMAIN calls : Pending(i, "analyze") /\ calls'[i].status = "resolved"
C1_MealPrepended ==
    [][AnalyzeSucceeds =>
         /\ Len(mockDb'.meals) = Len(mockDb.meals) + 1
         /\ Tail(mockDb'.meals) = mockDb.meals
         /\ mockDb'.meals[1].timestamp >= lastMealTs
         /\ \A k \in DOMAIN mockDb.meals :
               mockDb'.meals[1].timestamp >= mockDb.meals[k].timestamp
         /\ mockDb'.plans = mockDb.plans]_vars
\* a second analysis has been stored in front of an older one
C1_Witness ==
    /\ ev = Ev("analyzeMealImage", "resolved")
    /\ Len(mockDb.meals) = 2
    /\ mockDb.meals[1].timestamp > mockDb.meals[2].timestamp

\* C2: a gateway call whose external call fails, or whose text is not valid
\* JSON matching the response schema, fails, writes nothing to the store, and
\* is not sent again.  Stated per step: a call that settles without failing
\* had a response matching its schema; a failing call leaves the store as it
\* was; a failed call stays failed.
SchemaOf(c) == IF c.op = "analyze" THEN nutritionalInfoSchema(c.ret) ELSE personalizedPlanSchema(c.ret)
C2_FailureWritesNothing ==
    [][\A i \in DOMAIN calls :
          /\ (calls[i].status = "pending" /\ calls'[i].status = "resolved")
                => SchemaOf(calls'[i])
          /\ (calls[i].status = "pending" /\ calls'[i].status = "rejected")
                => (mockDb' = mockDb /\ Len(calls') = Len(calls))
          /\ calls[i].status = "rejected" => calls'[i] = calls[i]]_vars

\* C3: a getHistory() that resolves after clearHistory() resolved, with no
\* gateway write in between, gives {meals: [], plans: []}, whatever the store
\* held before and whether clearHistory() ran once or twice.
C3_ClearThenGet ==
    (ev.op = "getHistory" /\ cleared >= 1) => histResult = DbValue(EmptyDb)
\* the store had been written to, was cleared twice, and was then read
C3_Witness ==
    /\ ev.op = "getHistory"
    /\ cleared = 2
    /\ \E i \in DOMAIN calls : calls[i].status = "resolved"
    /\ histResult = DbValue(EmptyDb)

\* C4: the value getHistory() resolves with is structurally equal to the
\* store at that moment, and getHistory leaves the store as it was; a caller
\* writing to a value it received leaves the store as it was.
C4_CopyEqualsStore ==
    [][/\ ev'.op = "getHistory"
            => (histResult' = DbValue(mockDb') /\ mockDb' = mockDb /\ heap' = heap)
       /\ (histResult' # histResult /\ ev'.op # "getHistory")
            => (mockDb' = mockDb /\ heap' = heap)]_vars

\* C5: a login with an email the user list does not hold fails with "No
\* account found", a registration with an email it holds fails with "already
\* exists"; in both cases localStorage is unchanged and no session starts.
ListReadable ==
    \/ ls.user_db.kind \in {"absent", "empty"}
    \/ (ls.user_db.kind = "json" /\ ls.user_db.doc.t = "arr")
ListEmails ==
    IF ls.user_db.kind = "json"
    THEN {ls.user_db.doc.v[k].v.email.v : k \in DOMAIN ls.user_db.doc.v}
    ELSE {}
NothingStarted == ls' = ls /\ user' = user /\ ~Truthy(user') /\ registered' = registered
C5_RejectedLogins ==
    [][/\ (ev'.op = "login" /\ ListReadable /\ ev'.cap.email \notin ListEmails)
            => (ev'.out = "No account found with that email. Please register."
                /\ NothingStarted)
       /\ (ev'.op = "register" /\ ListReadable /\ ev'.cap.email \in ListEmails)
            => (ev'.out = "An account with this email already exists."
                /\ NothingStarted)]_vars
\* an email registered earlier in the session has been refused a second
\* registration
C5_Witness ==
    /\ ev.op = "register"
    /\ ev.out = "An account with this email already exists."
    /\ \E k \in DOMAIN registered : registered[k].email = ev.cap.email
    /\ ~Truthy(user)

\* C6: once Register(name, email, password) has succeeded, every login with
\* that email and a non-empty password succeeds with exactly {name, email} as
\* the session user.
C6_LoginAfterRegister ==
    \A k \in DOMAIN registered :
        (ev.op = "login" /\ ev.cap.email = registered[k].email /\ ev.cap.password # "")
          => /\ ev.out = "ok"
             /\ user = UserValue(registered[k].name, registered[k].email)
             /\ ls.user = TextJson(UserValue(registered[k].name, registered[k].email))
\* the first of two registered users logs in again, with another password
C6_Witness ==
    /\ ev.op = "login"
    /\ ev.out = "ok"
    /\ Len(registered) = 2
    /\ ev.cap.email = registered[1].email
    /\ ev.cap.password # registered[1].password

\* C7: at application start a malformed 'user' record (a string JSON.parse
\* rejects) gives the logged-out state and is removed from localStorage; a
\* well-formed one becomes the session user and is kept.
Restoring == ~mounted /\ mounted'
C7_RestoreSession ==
    [][Restoring =>
         /\ ls.user.kind \in {"empty", "garbage"}
               => (~Truthy(user') /\ ls'.user = TextAbsent)
         /\ ls.user.kind = "json"
               => (user' = ParseDoc(ls.user.doc) /\ ls' = ls)]_vars

\* C8: when handleLogout has resolved there is no session user, no persisted
\* 'user' record, and the store is empty.
C8_LogoutClears ==
    ev.op = "handleLogout" =>
        /\ ~Truthy(user)
        /\ ls.user = TextAbsent
        /\ mockDb = EmptyDb
\* a logout has resolved after a plan had been stored
C8_Witness ==
    /\ ev.op = "handleLogout"
    /\ \E i \in DOMAIN calls : calls[i].status = "resolved"
    /\ mockDb = EmptyDb

\* C9: the plan a successful generatePersonalizedPlan returns, and the plan it
\* stores, have exactly the seven weekdays as the keys of mealPlan and of
\* workoutPlan.
SevenDays(plan) == DOMAIN plan.v.mealPlan.v = Days /\ DOMAIN plan.v.workoutPlan.v = Days
C9_SevenDays ==
    \A i \in DOMAIN calls :
        (calls[i].op = "plan" /\ calls[i].status = "resolved")
          => SevenDays(calls[i].ret)

\* C10: once a failed action has run to its end (a rejected or failing login
\* or registration, a failed plan request) and no timer of the form is
\* pending, the form's loading indicator is off.
AuthTimerPending == \E j \in DOMAIN timers : timers[j].owner = "auth"
C10_LoadingCleared ==
    /\ (ev.op \in {"login", "register"} /\ ev.out # "ok")
          => (~auth.isLoading \/ AuthTimerPending)
    /\ ev = Ev("generatePersonalizedPlan", "rejected") => ~coach.isLoading

\* C11: when a plan request made by the form fails, the plan the form
\* displayed when the request was made is still displayed, and the store is
\* as it was.
C11_PreviousDataKept ==
    [][\A i \in DOMAIN calls :
          (/\ Pending(i, "plan")
           /\ calls[i].owner = "coach" /\ ~calls[i].orphan
           /\ calls'[i].status = "rejected")
            => (coach'.plan = calls[i].shown /\ mockDb' = mockDb)]_vars

\* C12: the form calls generatePersonalizedPlan only from a state where age is
\* an integer 1-120, height and weight are non-empty and parse to positive
\* numbers, gender and activityLevel are enumerated values and goal is
\* non-empty; when validation fails no request is made and the store is as it
\* was.
AllDigits(cs) == cs # <<>> /\ \A k \in DOMAIN cs : cs[k] \in Digits
IntegerIn(s, lo, hi) ==
    /\ AllDigits(Unsigned(Chars(s)))
    /\ parseInt(s).val >= lo
    /\ parseInt(s).val <= hi
PositiveNumber(s) == ~Blank(s) /\ ~parseFloat(s).nan /\ ~NotPositive(parseFloat(s))
Genders == {"male", "female", "other"}
ActivityLevels == {"sedentary", "light", "moderate", "active", "very_active"}
PreValidated(m, goal) ==
    /\ IntegerIn(m.age, 1, 120)
    /\ PositiveNumber(m.height)
    /\ PositiveNumber(m.weight)
    /\ m.gender \in Genders
    /\ m.activityLevel \in ActivityLevels
    /\ ~Blank(goal)
FormRequests ==
    /\ Len(calls') = Len(calls) + 1
    /\ calls'[Len(calls')].owner = "coach"
C12_ValidatedRequests ==
    [][/\ FormRequests => PreValidated(coach.metrics, coach.goal)
       /\ ev' = Ev("handleGeneratePlan", "invalid")
            => (calls' = calls /\ mockDb' = mockDb /\ heap' = heap)]_vars

\* C13: the objects handed to callers (the value analyzeMealImage or
\* generatePersonalizedPlan returned, the metrics passed in) share nothing with
\* the stored items: a caller writing to one of them after the call leaves the
\* store, as getHistory() would copy it, as it was.
CallerWrites == \E k \in DOMAIN heap : heap'[k] # heap[k]
C13_StoreOwnsRecords ==
    [][CallerWrites => DeepCopy(DbValue(mockDb))' = DeepCopy(DbValue(mockDb))]_vars

\* C14: once a logout has completed (no session user, handleLogout's
\* clearHistory() resolved) the store holds no record, whenever the requests
\* made before the logout settle.
LogoutPending == \E j \in DOMAIN timers : timers[j].owner = "logout"
C14_NoRecordAfterLogout ==
    (LoggedOut /\ ~LogoutPending) => mockDb = EmptyDb

====
